---- MODULE Spec2Model ----
(***************************************************************************)
(* A model of the fitting core of grbLC: the Parameter/Model classes and   *)
(* chisq of grblc/fitting/model.py, and the afterglow functions of         *)
(* grblc/fitting/model.py and grblc/fitting/models.py.                     *)
(*                                                                         *)
(* Numbers.  The code computes in IEEE double precision through NumPy.     *)
(* The model computes exactly: a finite number is a rational, or one of    *)
(* the closed forms the afterglow functions produce (c0 + cm/ln10 + cp*ln10*)
(* with rational coefficients, q*e^z, log10(q)); the non-finite values     *)
(* +inf, -inf and NaN follow the IEEE rules NumPy applies (x/0, inf-inf,   *)
(* log10(0), comparisons with NaN).  Rounding, overflow and underflow of   *)
(* finite values are not modelled.  Data handed to the functions (x, T, F, *)
(* the parameter vector, sigma) is finite; non-finite values arise only    *)
(* from the operations of the code.                                        *)
(***************************************************************************)
EXTENDS Integers, Sequences, FiniteSets, TLC

(***************************************************************************)
(* Bounds of the model.                                                    *)
(***************************************************************************)
\* longest func_args list handed to Model(...)
MaxArgs == 2
\* longest parameter vector p handed to model(x, *p) and chisq
MaxVec == 2
\* most data points in x, y, sigma
MaxPts == 2

(***************************************************************************)
(* Exact rationals <<n, d>>, d > 0, in lowest terms.                       *)
(***************************************************************************)
Abs(i) == IF i < 0 THEN -i ELSE i

RECURSIVE Gcd(_, _)
Gcd(a, b) == IF b = 0 THEN a ELSE Gcd(b, a % b)

QNorm(n, d) ==
    LET s == IF d < 0 THEN -1 ELSE 1
        g == Gcd(Abs(n), Abs(d))
    IN  <<(s * n) \div g, (s * d) \div g>>

Q(i) == <<i, 1>>
QAdd(a, b) == QNorm(a[1] * b[2] + b[1] * a[2], a[2] * b[2])
QNeg(a) == <<-a[1], a[2]>>
QSub(a, b) == QAdd(a, QNeg(b))
QMul(a, b) == QNorm(a[1] * b[1], a[2] * b[2])
QInv(a) == QNorm(a[2], a[1])
QDiv(a, b) == QMul(a, QInv(b))
QLt(a, b) == a[1] * b[2] < b[1] * a[2]
QIsZero(a) == a[1] = 0

RECURSIVE IntPow(_, _)
IntPow(b, e) == IF e = 0 THEN 1 ELSE b * IntPow(b, e - 1)

\* q ^ e for an integer e and q # 0 (or e >= 0)
QPow(q, e) ==
    IF e >= 0 THEN QNorm(IntPow(q[1], e), IntPow(q[2], e))
    ELSE QNorm(IntPow(q[2], -e), IntPow(q[1], -e))

\* 10 ^ e for an integer e
QPow10(e) == QPow(Q(10), e)

\* whether q is 10^k for some integer k, and that k
RECURSIVE Log10Int(_)
Log10Int(q) ==
    IF q = Q(1) THEN 0
    ELSE IF q[2] = 1 /\ q[1] % 10 = 0 THEN 1 + Log10Int(<<q[1] \div 10, 1>>)
    ELSE IF q[1] = 1 /\ q[2] % 10 = 0 THEN Log10Int(<<1, q[2] \div 10>>) - 1
    ELSE 0

IsPow10(q) == QLt(Q(0), q) /\ QPow10(Log10Int(q)) = q

(***************************************************************************)
(* Numbers as NumPy sees them.  k is the kind:                             *)
(*   "fin"   the finite number c0 + cm/ln10 + cp*ln10 (a rational when     *)
(*           cm = cp = 0; ln10 is transcendental, so the form is unique),  *)
(*   "exp"   the finite number c0 * e^cm, cm # 0, c0 # 0,                  *)
(*   "log"   the finite number log10(c0), c0 > 0 not a power of ten,       *)
(*   "pinf", "ninf", "nan"  the IEEE non-finite values.                    *)
(***************************************************************************)
R0 == Q(0)
Fin(c0, cm, cp) == [k |-> "fin", c0 |-> c0, cm |-> cm, cp |-> cp]
Rat(q) == Fin(q, R0, R0)
Float(i) == Rat(Q(i))
PInf == [k |-> "pinf", c0 |-> R0, cm |-> R0, cp |-> R0]
NInf == [k |-> "ninf", c0 |-> R0, cm |-> R0, cp |-> R0]
NaN == [k |-> "nan", c0 |-> R0, cm |-> R0, cp |-> R0]
ExpV(q, z) ==
    IF QIsZero(z) \/ QIsZero(q) THEN Rat(q)
    ELSE [k |-> "exp", c0 |-> q, cm |-> z, cp |-> R0]
LogV(q) == [k |-> "log", c0 |-> q, cm |-> R0, cp |-> R0]

\* the float literal m * 10^e (1e-10, 1e-5): a rational where the denominator
\* is a machine integer (up to 10^9), else kept as mantissa and exponent
\* (kind "sci", the number c0 * 10^cm with 1 <= c0 < 10)
Sci(m, e) ==
    IF e >= -9 THEN Rat(QMul(Q(m), QPow10(e)))
    ELSE [k |-> "sci", c0 |-> Q(m), cm |-> Q(e), cp |-> R0]

IsNaN(v) == v.k = "nan"
IsFinite(v) == v.k \in {"fin", "exp", "log"}
IsRat(v) == v.k = "fin" /\ QIsZero(v.cm) /\ QIsZero(v.cp)
IsZero(v) == IsRat(v) /\ QIsZero(v.c0)
IsInteger(v) == IsRat(v) /\ v.c0[2] = 1

\* the sign of a rational or an infinity: -1, 0, 1
Sign(v) ==
    CASE v.k = "pinf" -> 1
      [] v.k = "ninf" -> -1
      [] IsRat(v) -> IF v.c0[1] > 0 THEN 1 ELSE IF v.c0[1] < 0 THEN -1 ELSE 0

Inf(s) == IF s > 0 THEN PInf ELSE NInf

VNeg(a) ==
    CASE a.k = "nan" -> NaN
      [] a.k = "pinf" -> NInf
      [] a.k = "ninf" -> PInf
      [] a.k = "fin" -> Fin(QNeg(a.c0), QNeg(a.cm), QNeg(a.cp))
      [] a.k = "exp" -> ExpV(QNeg(a.c0), a.cm)

\* a + b
VAdd(a, b) ==
    CASE IsNaN(a) \/ IsNaN(b) -> NaN
      [] a.k \in {"pinf", "ninf"} /\ b.k \in {"pinf", "ninf"} ->
            IF a.k = b.k THEN a ELSE NaN
      [] a.k \in {"pinf", "ninf"} -> a
      [] b.k \in {"pinf", "ninf"} -> b
      [] a.k = "fin" /\ b.k = "fin" ->
            Fin(QAdd(a.c0, b.c0), QAdd(a.cm, b.cm), QAdd(a.cp, b.cp))

\* a - b; x - x is 0 for every finite x
VSub(a, b) ==
    IF IsFinite(a) /\ a = b THEN Float(0) ELSE VAdd(a, VNeg(b))

\* a * b
VMul(a, b) ==
    CASE IsNaN(a) \/ IsNaN(b) -> NaN
      [] a.k \in {"pinf", "ninf"} \/ b.k \in {"pinf", "ninf"} ->
            IF IsZero(a) \/ IsZero(b) THEN NaN ELSE Inf(Sign(a) * Sign(b))
      [] IsRat(a) /\ b.k = "fin" ->
            Fin(QMul(a.c0, b.c0), QMul(a.c0, b.cm), QMul(a.c0, b.cp))
      [] a.k = "fin" /\ IsRat(b) ->
            Fin(QMul(a.c0, b.c0), QMul(a.cm, b.c0), QMul(a.cp, b.c0))
      [] IsRat(a) /\ b.k = "exp" -> ExpV(QMul(a.c0, b.c0), b.cm)
      [] a.k = "exp" /\ IsRat(b) -> ExpV(QMul(a.c0, b.c0), a.cm)
      [] a.k = "exp" /\ b.k = "exp" ->
            ExpV(QMul(a.c0, b.c0), QAdd(a.cm, b.cm))

\* np.log(10)
Ln10 == Fin(R0, R0, Q(1))

\* a / b as NumPy divides floats: x/0 is +-inf, 0/0 is NaN, no exception
VDiv(a, b) ==
    CASE IsNaN(a) \/ IsNaN(b) -> NaN
      [] a.k \in {"pinf", "ninf"} /\ b.k \in {"pinf", "ninf"} -> NaN
      [] a.k \in {"pinf", "ninf"} ->
            Inf(Sign(a) * (IF Sign(b) < 0 THEN -1 ELSE 1))
      [] b.k \in {"pinf", "ninf"} -> Float(0)
      [] IsZero(b) ->
            IF IsZero(a) THEN NaN ELSE Inf(Sign(a))
      [] a.k = "fin" /\ IsRat(b) ->
            Fin(QDiv(a.c0, b.c0), QDiv(a.cm, b.c0), QDiv(a.cp, b.c0))
      [] a.k = "fin" /\ b = Ln10 /\ QIsZero(a.cm) -> Fin(a.cp, a.c0, R0)

\* a < b, a >= b as NumPy compares: every comparison with NaN is False
VLt(a, b) ==
    CASE IsNaN(a) \/ IsNaN(b) -> FALSE
      [] a.k = "pinf" \/ b.k = "ninf" -> FALSE
      [] a.k = "ninf" \/ b.k = "pinf" -> TRUE
      [] IsRat(a) /\ IsRat(b) -> QLt(a.c0, b.c0)

VGe(a, b) ==
    CASE IsNaN(a) \/ IsNaN(b) -> FALSE
      [] a.k = "pinf" \/ b.k = "ninf" -> TRUE
      [] a.k = "ninf" \/ b.k = "pinf" -> FALSE
      [] IsRat(a) /\ IsRat(b) -> ~QLt(a.c0, b.c0)

\* base ** ex for the exponents the code forms: an integer, +inf or -inf
VPow(base, ex) ==
    CASE IsZero(ex) \/ base = Float(1) -> Float(1)
      [] IsNaN(base) \/ IsNaN(ex) -> NaN
      [] ex.k \in {"pinf", "ninf"} /\ IsRat(base) ->
            LET m == Rat(<<Abs(base.c0[1]), base.c0[2]>>)
                grows == (VLt(Float(1), m) /\ ex.k = "pinf")
                         \/ (VLt(m, Float(1)) /\ ex.k = "ninf")
            IN  IF m = Float(1) THEN Float(1)
                ELSE IF grows THEN PInf ELSE Float(0)
      [] ex.k \in {"pinf", "ninf"} /\ base.k = "pinf" ->
            IF ex.k = "pinf" THEN PInf ELSE Float(0)
      [] IsInteger(ex) /\ base.k = "pinf" ->
            IF ex.c0[1] > 0 THEN PInf ELSE Float(0)
      [] IsInteger(ex) /\ IsZero(base) ->
            IF ex.c0[1] > 0 THEN Float(0) ELSE PInf
      [] IsInteger(ex) /\ IsRat(base) -> Rat(QPow(base.c0, ex.c0[1]))

\* np.power(10, v) for an integer-valued v
Power10(v) ==
    CASE IsNaN(v) -> NaN
      [] v.k = "pinf" -> PInf
      [] v.k = "ninf" -> Float(0)
      [] IsInteger(v) -> Rat(QPow10(v.c0[1]))

\* np.exp(v) for a rational v
Exp(v) ==
    CASE IsNaN(v) -> NaN
      [] v.k = "pinf" -> PInf
      [] v.k = "ninf" -> Float(0)
      [] IsRat(v) -> ExpV(Q(1), v.c0)

\* np.log10(v): -inf at 0, NaN below 0, no exception
Log10(v) ==
    CASE IsNaN(v) -> NaN
      [] v.k = "pinf" -> PInf
      [] v.k = "ninf" -> NaN
      [] IsZero(v) -> NInf
      [] IsRat(v) /\ Sign(v) < 0 -> NaN
      [] IsRat(v) /\ Sign(v) > 0 ->
            IF IsPow10(v.c0) THEN Float(Log10Int(v.c0)) ELSE LogV(v.c0)
      [] v.k = "exp" /\ IsPow10(v.c0) -> Fin(Q(Log10Int(v.c0)), v.cm, R0)

(***************************************************************************)
(* np.piecewise(x, [c1, c2], [f1, f2]), one element: the output starts as  *)
(* 0 and each function in turn overwrites the elements its condition       *)
(* selects, so a later condition wins and an element no condition selects  *)
(* stays 0.  Branches is the set of functions applied to the element.      *)
(***************************************************************************)
Piecewise(conds, v1, v2) ==
    IF conds[2] THEN v2 ELSE IF conds[1] THEN v1 ELSE Float(0)

Branches(conds) ==
    (IF conds[1] THEN {"before"} ELSE {}) \cup (IF conds[2] THEN {"after"} ELSE {})

\* the result of a call: a value, or the exception it raised
Returned(v) == [err |-> "none", val |-> v]
Raised(e) == [err |-> e, val |-> <<>>]

(***************************************************************************)
(* grblc/fitting/model.py: _w07, _simple_bpl, _smooth_bpl.  x is one       *)
(* element of the array; the functions apply elementwise.                  *)
(***************************************************************************)
W07Before(x, T, F, alpha, t) ==
    VDiv(VAdd(VSub(VAdd(VMul(VNeg(t), Power10(VNeg(x))), alpha),
                   VMul(alpha, Power10(VSub(x, T)))),
              VMul(F, Ln10)),
         Ln10)

W07After(x, T, F, alpha, t) ==
    VSub(VSub(VAdd(F, VMul(T, alpha)), VMul(x, alpha)),
         VDiv(VMul(t, Power10(VNeg(x))), Ln10))

W07CondsStrict(x, T) == <<VLt(x, T), VLt(T, x)>>

\* [x < T, x >= T]
W07Conds(x, T) == <<VLt(x, T), VGe(x, T)>>

W07Elem(x, T, F, alpha, t) ==
    Piecewise(W07Conds(x, T), W07Before(x, T, F, alpha, t), W07After(x, T, F, alpha, t))

W07(xs, T, F, alpha, t) ==
    Returned([i \in 1..Len(xs) |-> W07Elem(xs[i], T, F, alpha, t)])

\* before and after of _simple_bpl, at the linear time linX
BplBranch(linX, linT, linF, alpha) ==
    VMul(linF, VPow(VDiv(linX, linT), VNeg(alpha)))

\* [linX < linT, linX >= linT]
BplConds(linX, linT) == <<VLt(linX, linT), VGe(linX, linT)>>

SimpleBplElem(x, T, F, alpha1, alpha2) ==
    LET linT == Power10(T)
        linF == Power10(F)
        linX == Power10(x)
    IN  Log10(Piecewise(BplConds(linX, linT),
                        BplBranch(linX, linT, linF, alpha1),
                        BplBranch(linX, linT, linF, alpha2)))

SimpleBpl(xs, T, F, alpha1, alpha2) ==
    Returned([i \in 1..Len(xs) |-> SimpleBplElem(xs[i], T, F, alpha1, alpha2)])

(***************************************************************************)
(* a / b for scalars.  When both are Python numbers Python divides and     *)
(* raises ZeroDivisionError at b = 0; when either is a NumPy scalar NumPy  *)
(* divides (a RuntimeWarning, and the IEEE result).  np is whether a NumPy *)
(* scalar is involved.                                                     *)
(***************************************************************************)
ScalarDivRaisesAlways(b, np) == IsZero(b)

ScalarDivRaises(b, np) == ~np /\ IsZero(b)

SmoothBplElem(x, T, F, alpha1, alpha2, S) ==
    LET linT == Power10(T)
        linF == Power10(F)
        linX == Power10(x)
    IN  Log10(VMul(linF,
                   VPow(VAdd(VPow(VDiv(linX, linT), VMul(S, alpha1)),
                             VPow(VDiv(linX, linT), VMul(S, alpha2))),
                        VDiv(Float(-1), S))))

\* np is whether S is a NumPy scalar (an element of an ndarray) or a Python number
SmoothBpl(xs, T, F, alpha1, alpha2, S, np) ==
    IF ScalarDivRaises(S, np) THEN Raised("ZeroDivisionError")
    ELSE Returned([i \in 1..Len(xs) |-> SmoothBplElem(xs[i], T, F, alpha1, alpha2, S)])

(***************************************************************************)
(* grblc/fitting/models.py: w07, sharp_bpl, smooth_bpl.  w07 and           *)
(* smooth_bpl are np.vectorize'd: the body runs once per element, on NumPy *)
(* scalars.                                                                *)
(***************************************************************************)
LegacyW07Before(x, T, F, alpha, t) ==
    Log10(VMul(VMul(Power10(F),
                    Exp(VSub(alpha, VMul(alpha, VDiv(Power10(x), Power10(T)))))),
               Exp(VDiv(VNeg(t), Power10(x)))))

LegacyW07After(x, T, F, alpha, t) ==
    Log10(VMul(VMul(Power10(F),
                    VPow(VDiv(Power10(x), Power10(T)), VNeg(alpha))),
               Exp(VDiv(VNeg(t), Power10(x)))))

\* [10^x < 10^T, 10^x >= 10^T]
LegacyW07Conds(x, T) ==
    <<VLt(Power10(x), Power10(T)), VGe(Power10(x), Power10(T))>>

LegacyW07Elem(x, T, F, alpha, t) ==
    Piecewise(LegacyW07Conds(x, T),
              LegacyW07Before(x, T, F, alpha, t), LegacyW07After(x, T, F, alpha, t))

LegacyW07(xs, T, F, alpha, t) ==
    Returned([i \in 1..Len(xs) |-> LegacyW07Elem(xs[i], T, F, alpha, t)])

SharpBplElem(x, T, F, alpha1, alpha2) ==
    LET linT == Power10(T)
        linF == Power10(F)
        linX == Power10(x)
    IN  Log10(Piecewise(BplConds(linX, linT),
                        BplBranch(linX, linT, linF, alpha1),
                        BplBranch(linX, linT, linF, alpha2)))

SharpBpl(xs, T, F, alpha1, alpha2) ==
    Returned([i \in 1..Len(xs) |-> SharpBplElem(xs[i], T, F, alpha1, alpha2)])

\* the first power is of x / linT, of the log time x, not of linX / linT
LegacySmoothBplElem(x, T, F, alpha1, alpha2, S) ==
    LET linT == Power10(T)
        linF == Power10(F)
        linX == Power10(x)
    IN  Log10(VMul(linF,
                   VPow(VAdd(VPow(VDiv(x, linT), VMul(alpha1, S)),
                             VPow(VDiv(linX, linT), VMul(alpha2, S))),
                        VDiv(Float(-1), S))))

LegacySmoothBpl(xs, T, F, alpha1, alpha2, S) ==
    IF ScalarDivRaises(S, TRUE) THEN Raised("ZeroDivisionError")
    ELSE Returned([i \in 1..Len(xs) |-> LegacySmoothBplElem(xs[i], T, F, alpha1, alpha2, S)])

(***************************************************************************)
(* Python values.  None is the absent argument; a callable is its name,    *)
(* its positional parameter names (inspect.getfullargspec(func).args) and  *)
(* whether its signature carries annotations.                              *)
(***************************************************************************)
None == "<None>"

\* a dict, which keeps its keys in the order of their first insertion
DictKeys(d) == [i \in 1..Len(d) |-> d[i].key]
DictHas(d, key) == \E i \in 1..Len(d) : d[i].key = key
DictGet(d, key) == d[CHOOSE i \in 1..Len(d) : d[i].key = key].value

DictSetKeepFirst(d, key, value) ==
    IF DictHas(d, key) THEN d ELSE Append(d, [key |-> key, value |-> value])

\* d[key] = value: a new key goes last, a known key keeps its place
DictSet(d, key, value) ==
    IF DictHas(d, key)
    THEN [i \in 1..Len(d) |-> IF d[i].key = key THEN [key |-> key, value |-> value] ELSE d[i]]
    ELSE Append(d, [key |-> key, value |-> value])

(***************************************************************************)
(* class Parameter                                                         *)
(***************************************************************************)
DefaultDescription == "Autogenerated argument from input function."

ParameterInit(name, description, min, max, vary, plot_fmt) ==
    [name |-> name,
     description |-> IF description # None THEN description ELSE DefaultDescription,
     plot_fmt |-> IF plot_fmt # None THEN plot_fmt ELSE name,
     min |-> min,
     max |-> max,
     vary |-> vary]

\* Parameter(name): every other argument at its default
DefaultParameter(name) == ParameterInit(name, None, NInf, PInf, TRUE, None)

(***************************************************************************)
(* inspect.getfullargspec(func).args, and the deprecated                   *)
(* inspect.getargspec(func).args, which raises ValueError for a function   *)
(* with annotations (and is gone from Python 3.11 on).                     *)
(***************************************************************************)
GetFullArgSpec(func) == func.args

GetArgSpec(func) ==
    IF func.annotated THEN Raised("ValueError") ELSE Returned(func.args)

Tail1(s) == IF Len(s) = 0 THEN <<>> ELSE Tail(s)
InSeq(e, s) == \E i \in 1..Len(s) : s[i] = e

(***************************************************************************)
(* class Model.  func_args and bounds are [given, list]: given is FALSE    *)
(* for None.                                                               *)
(***************************************************************************)
RECURSIVE DictOfParameters(_, _)
\* {p.name: p for p in func_args}, continued from the dict d
DictOfParameters(d, params) ==
    IF Len(params) = 0 THEN d
    ELSE DictOfParameters(DictSet(d, params[1].name, params[1]), Tail(params))

RECURSIVE DictOfNames(_, _)
\* {name: Parameter(name) for name in names}
DictOfNames(d, names) ==
    IF Len(names) = 0 THEN d
    ELSE DictOfNames(DictSet(d, names[1], DefaultParameter(names[1])), Tail(names))

DefaultBounds == <<NInf, PInf, NInf, PInf>>

InvalidNameFirstOnly(func_argspec, params) ==
    Len(params) > 0 /\ ~InSeq(params[1].name, func_argspec)

\* the check of lines 165-169: some supplied name is not in func_argspec
InvalidName(func_argspec, params) ==
    \E i \in 1..Len(params) : ~InSeq(params[i].name, func_argspec)

\* the dict of __init__'s func_args branch
GivenFuncArgs(params) == DictOfParameters(<<>>, params)

ModelObject(func, name, slug, func_args, bounds) ==
    LET n == IF name # "" THEN name ELSE func.name
    IN  [func |-> func,
         name |-> n,
         slug |-> IF slug # "" THEN slug ELSE n,
         func_args |-> func_args,
         bounds |-> bounds]

\* Model.__init__: the new object, or the exception raised
ModelInit(func, name, slug, func_args, bounds) ==
    LET func_argspec == Tail1(GetFullArgSpec(func))
        spec2 == GetArgSpec(func)
    IN  IF func_args.given /\ InvalidName(func_argspec, func_args.list)
        THEN Raised("ValueError")
        ELSE IF ~func_args.given /\ spec2.err # "none"
        THEN Raised(spec2.err)
        ELSE IF bounds.given /\ Len(bounds.list) # 4
        THEN Raised("AssertionError")
        ELSE Returned(ModelObject(func, name, slug,
                        IF func_args.given THEN GivenFuncArgs(func_args.list)
                        ELSE DictOfNames(<<>>, Tail1(spec2.val)),
                        IF bounds.given THEN bounds.list ELSE DefaultBounds))

\* len(model), iter(model), model[key], repr(model)
ModelLen(m) == Len(m.func_args)
ModelIter(m) == DictKeys(m.func_args)
ModelGetItem(m, key) ==
    IF DictHas(m.func_args, key) THEN Returned(DictGet(m.func_args, key))
    ELSE Raised("KeyError")
ModelRepr(m) == <<"<grbLC> Model(", m.name, ")">>

(***************************************************************************)
(* Calling a Python function def f(x, ...) with positional and keyword     *)
(* arguments: TypeError when an argument is missing, given twice or        *)
(* unknown.  kwargs is a sequence of [name, value], one per keyword.       *)
(***************************************************************************)
IndexOf(e, s) == CHOOSE i \in 1..Len(s) : s[i] = e

BindsAll(func, params, kwargs) ==
    LET formal == Tail1(func.args)
    IN  /\ Len(params) <= Len(formal)
        /\ \A j \in 1..Len(kwargs) :
              /\ InSeq(kwargs[j].name, formal)
              /\ IndexOf(kwargs[j].name, formal) > Len(params)
        /\ \A i \in 1..Len(formal) :
              i > Len(params) => \E j \in 1..Len(kwargs) : kwargs[j].name = formal[i]

Argument(func, params, kwargs, name) ==
    LET i == IndexOf(name, Tail1(func.args))
    IN  IF i <= Len(params) THEN params[i]
        ELSE kwargs[CHOOSE j \in 1..Len(kwargs) : kwargs[j].name = name].value

\* func(x, *params, **kwargs); np is whether the scalars are NumPy scalars
Apply(func, xs, params, kwargs, np) ==
    IF ~BindsAll(func, params, kwargs) THEN Raised("TypeError")
    ELSE LET arg(name) == Argument(func, params, kwargs, name)
         IN  CASE func.name \in {"line", "typed"} ->
                    Returned([i \in 1..Len(xs) |-> VAdd(VMul(arg("a"), xs[i]), arg("b"))])
               [] func.name = "inv" ->
                    Returned([i \in 1..Len(xs) |-> VDiv(arg("a"), xs[i])])
               [] func.name = "_w07" ->
                    W07(xs, arg("T"), arg("F"), arg("alpha"), arg("t"))
               [] func.name = "_simple_bpl" ->
                    SimpleBpl(xs, arg("T"), arg("F"), arg("alpha1"), arg("alpha2"))
               [] func.name = "_smooth_bpl" ->
                    SmoothBpl(xs, arg("T"), arg("F"), arg("alpha1"), arg("alpha2"),
                              arg("S"), np)

PySliceAll(p, n) == p

\* p[:n]
PySlice(p, n) == SubSeq(p, 1, IF n < Len(p) THEN n ELSE Len(p))

\* Model.__call__: self.func(x, *p[: len(self)], **kwargs)
ModelCall(m, xs, p, kwargs, np) ==
    Apply(m.func, xs, PySlice(p, ModelLen(m)), kwargs, np)

ModelSetAttrRebinds(m, attr, value) ==
    [err |-> "none", val |-> [m EXCEPT ![attr] = value]]

\* model.<attr> = value: func and func_args are properties without a setter
\* (AttributeError), the others are plain attributes.  val is the object after.
ModelSetAttr(m, attr, value) ==
    IF attr \in {"func", "func_args"} THEN [err |-> "AttributeError", val |-> m]
    ELSE [err |-> "none", val |-> [m EXCEPT ![attr] = value]]

(***************************************************************************)
(* chisq of grblc/fitting/model.py                                         *)
(***************************************************************************)
RECURSIVE Sum(_)
\* np.sum
Sum(s) == IF Len(s) = 0 THEN Float(0) ELSE VAdd(s[1], Sum(Tail(s)))

ResidualAdded(y, f) == VAdd(y, f)

\* r = y - model(x, *p), one element
Residual(y, f) == VSub(y, f)

\* r ** 2 / sigma ** 2, one element
ChisqTerm(r, sigma) == VDiv(VMul(r, r), VMul(sigma, sigma))

FreeParamsOfModel(m, p) == ModelLen(m)

\* the number of free parameters: len(p)
FreeParams(m, p) == Len(p)

\* _chisq / (len(x) - len(p)): _chisq is a NumPy scalar, NumPy divides
Reduced(c, xs, m, p) == VDiv(c, Float(Len(xs) - FreeParams(m, p)))

Chisq(xs, ys, sigma, m, p, return_reduced, np) ==
    LET f == ModelCall(m, xs, p, <<>>, np)
        c == Sum([i \in 1..Len(xs) |-> ChisqTerm(Residual(ys[i], f.val[i]), sigma[i])])
    IN  IF f.err # "none" THEN Raised(f.err)
        ELSE IF return_reduced THEN Returned(<<c, Reduced(c, xs, m, p)>>)
        ELSE Returned(c)

(***************************************************************************)
(* The callables of grblc/fitting/model.py and the preset                  *)
(* Model.SMOOTH_BPL().                                                     *)
(***************************************************************************)
SmoothBplFunc ==
    [name |-> "_smooth_bpl", args |-> <<"x", "T", "F", "alpha1", "alpha2", "S">>,
     annotated |-> FALSE]

SmoothBplPreset ==
    ModelInit(SmoothBplFunc, "smooth broken power law", "smooth_bpl",
              [given |-> TRUE,
               list |-> << ParameterInit("T", "log time at end of plateau (log sec)",
                                         Rat(<<1, 100000>>), Float(10), TRUE, None),
                           ParameterInit("F", "log flux at end of plateau  (log erg cm^-2 s^-1)",
                                         Float(-20), Float(-2), TRUE, None),
                           ParameterInit("alpha1", "temporal decay index of initial power law",
                                         Float(-5), Float(5), TRUE, "$\\alpha_1$"),
                           ParameterInit("alpha2", "temporal decay index of end power law",
                                         Float(0), Float(20), TRUE, "$\\alpha_2$"),
                           ParameterInit("S", "smoothing factor", NInf, PInf, TRUE, None) >>],
              [given |-> FALSE, list |-> <<>>])

SMOOTH_BPL == SmoothBplPreset.val

W07Func ==
    [name |-> "_w07", args |-> <<"x", "T", "F", "alpha", "t">>, annotated |-> FALSE]

\* Model.W07(vary_t)
W07Preset(vary_t) ==
    ModelInit(W07Func, "Willingale 2007", "w07",
              [given |-> TRUE,
               list |-> << ParameterInit("T", "log time at end of plateau (log sec)",
                                         Sci(1, -10), Float(10), TRUE, None),
                           ParameterInit("F", "log flux at end of plateau (log erg/cm^2/s)",
                                         Float(-20), Float(2), TRUE, None),
                           ParameterInit("alpha", "temporal decay index of power law",
                                         Float(0), Float(5), TRUE, "$\\alpha$"),
                           ParameterInit("t", "log time at peak (log sec)",
                                         Float(0), PInf, vary_t, None) >>],
              [given |-> FALSE, list |-> <<>>])

SimpleBplFunc ==
    [name |-> "_simple_bpl", args |-> <<"x", "T", "F", "alpha1", "alpha2">>,
     annotated |-> FALSE]

\* Model.SIMPLE_BPL()
SimpleBplPreset ==
    ModelInit(SimpleBplFunc, "simple broken power law", "simple_bpl",
              [given |-> TRUE,
               list |-> << ParameterInit("T", "log time at end of plateau (log sec)",
                                         Sci(1, -5), Float(10), TRUE, None),
                           ParameterInit("F", "log flux at end of plateau  (log erg cm^-2 s^-1)",
                                         Float(-20), Float(-2), TRUE, None),
                           ParameterInit("alpha1", "temporal decay index of initial power law",
                                         Float(-5), Float(5), TRUE, "$\\alpha_1$"),
                           ParameterInit("alpha2", "temporal decay index of end power law",
                                         Float(0), Float(20), TRUE, "$\\alpha_2$") >>],
              [given |-> FALSE, list |-> <<>>])

PresetNames == {"W07", "SIMPLE_BPL", "SMOOTH_BPL"}

Preset(name, vary_t) ==
    CASE name = "W07" -> W07Preset(vary_t)
      [] name = "SIMPLE_BPL" -> SimpleBplPreset
      [] name = "SMOOTH_BPL" -> SmoothBplPreset

\* the "Pre-defined priors" of the presets' docstrings: name, Uniform(min, max)
Prior(name, min, max) == [name |-> name, min |-> min, max |-> max]

W07DocPriors ==
    << Prior("T", Sci(1, -10), Float(10)),
       Prior("F", Float(-20), Float(2)),
       Prior("alpha", Float(0), Float(5)),
       Prior("t", Float(0), PInf) >>

SmoothBplDocPriors ==
    << Prior("T", Sci(1, -10), Float(10)),
       Prior("F", Float(-20), Float(2)),
       Prior("alpha1", Float(-5), Float(5)),
       Prior("alpha2", Float(-5), Float(5)),
       Prior("S", NInf, PInf) >>

SimpleBplDocPriors ==
    << Prior("T", Sci(1, -10), Float(10)),
       Prior("F", Float(-20), Float(2)),
       Prior("alpha1", Float(-5), Float(5)),
       Prior("alpha2", Float(-5), Float(5)) >>

DocPriors(name) ==
    CASE name = "W07" -> W07DocPriors
      [] name = "SIMPLE_BPL" -> SimpleBplDocPriors
      [] name = "SMOOTH_BPL" -> SmoothBplDocPriors

(***************************************************************************)
(* grblc/fitting/models.py: probability(reduced_chisq, nu, tt=0), for an   *)
(* even nu = 2k and an integer reduced_chisq, both Python numbers.         *)
(*   integrand(x) = (2^(-k) / gamma(k)) * exp(-x/2) * x^(k-1)              *)
(* si.quad(integrand, a, inf) evaluates the integrand at points x of the   *)
(* range, the first of them the centre of the transformed range, x = a+1,  *)
(* and none beyond 10^18.  x and -1 + nu/2 are Python floats, so           *)
(* x ** (-1 + nu/2) raises OverflowError where the power exceeds the float *)
(* range (about 1.8 * 10^308), and quad passes the exception on.  Where no *)
(* evaluation overflows, quad returns the integral, taken here exactly     *)
(* (its rounding and truncation errors are left out).                      *)
(***************************************************************************)
RECURSIVE FloorLog10(_)
FloorLog10(n) == IF n < 10 THEN 0 ELSE 1 + FloorLog10(n \div 10)

\* x ** p for a Python float x >= 1 with an integer value and an integer p >= 0:
\* whether it raises OverflowError.  10^FloorLog10(x) <= x < 10^(FloorLog10(x)+1)
\* decides every case the callers form.
PyPowOverflows(x, p) ==
    CASE FloorLog10(x) * p >= 309 -> TRUE
      [] (FloorLog10(x) + 1) * p <= 308 -> FALSE

\* whether some evaluation of the integrand by quad overflows
QuadOverflows(k, a) ==
    CASE PyPowOverflows(a + 1, k - 1) -> TRUE
      [] 18 * (k - 1) <= 308 -> FALSE

\* gamma(k) for an integer k >= 1
RECURSIVE Gamma(_)
Gamma(k) == IF k <= 1 THEN 1 ELSE (k - 1) * Gamma(k - 1)

\* 2 ** (-nu / 2) / gamma(nu / 2)
IntegrandCoef(k) == QDiv(QPow(Q(2), -k), Q(Gamma(k)))

\* the integral of exp(-x/2) * x^(k-1) from a to infinity is
\* exp(-a/2) * TailPoly(k, a), by parts:
\*   TailPoly(1, a) = 2,  TailPoly(k, a) = 2*a^(k-1) + 2*(k-1)*TailPoly(k-1, a)
RECURSIVE TailPoly(_, _)
TailPoly(k, a) ==
    IF k = 1 THEN Q(2)
    ELSE QAdd(QMul(Q(2), QPow(Q(a), k - 1)), QMul(Q(2 * (k - 1)), TailPoly(k - 1, a)))

\* y, yerr = si.quad(integrand, a, np.inf): y
Quad(k, a) ==
    IF QuadOverflows(k, a) THEN Raised("OverflowError")
    ELSE Returned(ExpV(QMul(IntegrandCoef(k), TailPoly(k, a)), QNorm(-a, 2)))

\* the lower limit of the integral: reduced_chisq * nu
QuadLower(reduced_chisq, nu, tt) == reduced_chisq * nu

Probability(reduced_chisq, nu, tt) ==
    Quad(nu \div 2, QuadLower(reduced_chisq, nu, tt))

(***************************************************************************)
(* grblc/fitting/models.py: chisq(x, y, yerr, model, *p).  The result      *)
(* carries what the call printed and the caller's arrays as they are after *)
(* the call (np.asarray rebinds the local names only).                     *)
(***************************************************************************)
ZeroErrorWarning == "Y_err of 0 provided. This is not gonna end well..."

AnyZeroFirstOnly(yerr) == Len(yerr) > 0 /\ IsZero(yerr[1])

\* any(yerr == 0)
AnyZero(yerr) == \E i \in 1..Len(yerr) : IsZero(yerr[i])

\* np.square(y - model(x, *p)) / np.power(yerr, 2), one element
LegacyChisqTerm(y, f, yerr) ==
    LET r == VSub(y, f)
    IN  VDiv(VMul(r, r), VPow(yerr, Float(2)))

LegacyChisq(xs, ys, yerr, m, p) ==
    LET printed == IF AnyZero(yerr) THEN <<ZeroErrorWarning>> ELSE <<>>
        f == ModelCall(m, xs, p, <<>>, FALSE)
    IN  [err |-> f.err,
         val |-> IF f.err # "none" THEN <<>>
                 ELSE Sum([i \in 1..Len(xs) |-> LegacyChisqTerm(ys[i], f.val[i], yerr[i])]),
         printed |-> printed,
         args |-> <<xs, ys, yerr>>]

(***************************************************************************)
(* The state: one Model object as its callers see it, and the operation    *)
(* in progress.  A caller performs an operation (pc goes from "idle" to    *)
(* "done", call holds the operation and its arguments, ret its outcome)    *)
(* and then takes the outcome (Return).  Callers are independent: any of   *)
(* them may perform the next operation.                                    *)
(***************************************************************************)
VARIABLES
    alive,   \* whether the Model object exists
    model,   \* the Model object: func, name, slug, func_args, bounds
    pc,      \* "idle" | "done"
    call,    \* the last operation and its arguments
    ret      \* its outcome: [err, val]

vars == <<alive, model, pc, call, ret>>

NoModel == [func |-> None, name |-> None, slug |-> None, func_args |-> <<>>, bounds |-> <<>>]
NoCall == [op |-> "none"]
NoRet == Returned(<<>>)

(***************************************************************************)
(* The inputs the callers draw from.                                       *)
(***************************************************************************)
\* def line(x, a, b): return a * x + b
\* def inv(x, a): return a / x
\* def typed(x, a: float, b: float): return a * x + b
Callables ==
    { [name |-> "line", args |-> <<"x", "a", "b">>, annotated |-> FALSE],
      [name |-> "inv", args |-> <<"x", "a">>, annotated |-> FALSE],
      [name |-> "typed", args |-> <<"x", "a", "b">>, annotated |-> TRUE] }

ParameterNames == {"a", "b", "q"}

\* Parameter(name) for each name, and
\* Parameter("a", "fixed", min=0, max=10, vary=False, plot_fmt="$a$")
Parameters ==
    { DefaultParameter(n) : n \in ParameterNames }
    \cup { ParameterInit("a", "fixed", Float(0), Float(10), FALSE, "$a$") }

SeqsUpTo(S, n) == UNION { [1..k -> S] : k \in 0..n }

FuncArgsInputs ==
    { [given |-> FALSE, list |-> <<>>] }
    \cup { [given |-> TRUE, list |-> l] : l \in SeqsUpTo(Parameters, MaxArgs) }

BoundsInputs ==
    { [given |-> FALSE, list |-> <<>>],
      [given |-> TRUE, list |-> <<Float(0), Float(10), Float(-20), Float(2)>>],
      [given |-> TRUE, list |-> <<Float(0), Float(10), Float(-20)>>] }

\* <<name, slug>>
NameInputs == { <<"", "">>, <<"Fit", "fit">> }

\* strictly increasing arrays of log times, of 1..MaxPts points
XValues == {0, 1, 2}
XArrays ==
    { xs \in UNION { [1..k -> { Float(i) : i \in XValues }] : k \in 1..MaxPts } :
        \A i \in 1..(Len(xs) - 1) : VLt(xs[i], xs[i + 1]) }

\* parameter vectors
PValues == {0, 1}
PVectors == SeqsUpTo({ Float(i) : i \in PValues }, MaxVec)

KwargsInputs == { <<>>, <<[name |-> "b", value |-> Float(1)]>> }

SigmaValues == {0, 2}
SigmaArrays(n) == [1..n -> { Float(i) : i \in SigmaValues }]

Zeros(n) == [i \in 1..n |-> Float(0)]

(***************************************************************************)
(* The operations.                                                         *)
(***************************************************************************)
\* Model(func, name, slug, func_args, bounds)
Construct ==
    /\ pc = "idle" /\ ~alive
    /\ \E func \in Callables, ns \in NameInputs, fa \in FuncArgsInputs, b \in BoundsInputs :
          LET r == ModelInit(func, ns[1], ns[2], fa, b)
          IN  /\ call' = [op |-> "Model", func |-> func, name |-> ns[1], slug |-> ns[2],
                          func_args |-> fa, bounds |-> b]
              /\ alive' = (r.err = "none")
              /\ model' = IF r.err = "none" THEN r.val ELSE NoModel
              /\ ret' = [err |-> r.err, val |-> <<>>]
    /\ pc' = "done"

\* model(x, *p, **kwargs)
Call ==
    /\ pc = "idle" /\ alive
    /\ \E xs \in XArrays, p \in PVectors, kw \in KwargsInputs :
          /\ call' = [op |-> "call", x |-> xs, p |-> p, kwargs |-> kw]
          /\ ret' = ModelCall(model, xs, p, kw, FALSE)
    /\ pc' = "done"
    /\ UNCHANGED <<alive, model>>

\* len(model)
Length ==
    /\ pc = "idle" /\ alive
    /\ call' = [op |-> "len"]
    /\ ret' = Returned(ModelLen(model))
    /\ pc' = "done"
    /\ UNCHANGED <<alive, model>>

\* list(iter(model))
Iterate ==
    /\ pc = "idle" /\ alive
    /\ call' = [op |-> "iter"]
    /\ ret' = Returned(ModelIter(model))
    /\ pc' = "done"
    /\ UNCHANGED <<alive, model>>

\* model[key]
GetItem ==
    /\ pc = "idle" /\ alive
    /\ \E key \in ParameterNames :
          /\ call' = [op |-> "getitem", key |-> key]
          /\ ret' = ModelGetItem(model, key)
    /\ pc' = "done"
    /\ UNCHANGED <<alive, model>>

\* repr(model)
Repr ==
    /\ pc = "idle" /\ alive
    /\ call' = [op |-> "repr"]
    /\ ret' = Returned(ModelRepr(model))
    /\ pc' = "done"
    /\ UNCHANGED <<alive, model>>

\* model.<attr> = value
Assign(attr, value) ==
    /\ pc = "idle" /\ alive
    /\ call' = [op |-> "setattr", attr |-> attr]
    /\ model' = ModelSetAttr(model, attr, value).val
    /\ ret' = [err |-> ModelSetAttr(model, attr, value).err, val |-> <<>>]
    /\ pc' = "done"
    /\ UNCHANGED alive

SetAttr ==
    \/ \E f \in Callables : Assign("func", f)
    \/ Assign("func_args", <<>>)
    \/ Assign("name", "Fit")

\* chisq(x, y, sigma, model, p, return_reduced); fit: y is model(x, *p) itself
ChisqCall ==
    /\ pc = "idle" /\ alive
    /\ \E xs \in XArrays, p \in PVectors, fit \in BOOLEAN, rr \in BOOLEAN :
       \E sigma \in SigmaArrays(Len(xs)) :
          LET f == ModelCall(model, xs, p, <<>>, FALSE)
              ys == IF fit /\ f.err = "none" THEN f.val ELSE Zeros(Len(xs))
          IN  /\ call' = [op |-> "chisq", x |-> xs, y |-> ys, sigma |-> sigma, p |-> p,
                          return_reduced |-> rr]
              /\ ret' = Chisq(xs, ys, sigma, model, p, rr, FALSE)
    /\ pc' = "done"
    /\ UNCHANGED <<alive, model>>

\* models.chisq(x, y, yerr, model, *p); fit: y is model(x, *p) itself
LegacyChisqCall ==
    /\ pc = "idle" /\ alive
    /\ \E xs \in XArrays, p \in PVectors, fit \in BOOLEAN :
       \E yerr \in SigmaArrays(Len(xs)) :
          LET f == ModelCall(model, xs, p, <<>>, FALSE)
              ys == IF fit /\ f.err = "none" THEN f.val ELSE Zeros(Len(xs))
          IN  /\ call' = [op |-> "legacy_chisq", x |-> xs, y |-> ys, yerr |-> yerr, p |-> p]
              /\ ret' = LegacyChisq(xs, ys, yerr, model, p)
    /\ pc' = "done"
    /\ UNCHANGED <<alive, model>>

\* the caller takes the outcome
Return ==
    /\ pc = "done"
    /\ pc' = "idle"
    /\ call' = NoCall
    /\ ret' = NoRet
    /\ UNCHANGED <<alive, model>>

Init ==
    /\ alive = FALSE
    /\ model = NoModel
    /\ pc = "idle"
    /\ call = NoCall
    /\ ret = NoRet

Next ==
    \/ Construct
    \/ Call
    \/ Length
    \/ Iterate
    \/ GetItem
    \/ Repr
    \/ SetAttr
    \/ ChisqCall
    \/ LegacyChisqCall
    \/ Return

Spec == Init /\ [][Next]_vars

(***************************************************************************)
(* The afterglow functions called directly.  The caller's numbers are      *)
(* integers (log times, log fluxes, decay indices), handed over as floats. *)
(* ret.branches[i] is the set of branch functions np.piecewise applied to  *)
(* element i.                                                              *)
(***************************************************************************)
FnXValues == {-1, 0, 1, 2}
FnXArrays ==
    { xs \in UNION { [1..k -> FnXValues] : k \in 1..MaxPts } :
        \A i \in 1..(Len(xs) - 1) : xs[i] < xs[i + 1] }
TValues == {0, 1, 2}
FValues == {-1, 0}
AlphaValues == {0, 1, 2}
SmallTValues == {0, 1}
SValues == {-1, 0, 1}

Floats(xs) == [i \in 1..Len(xs) |-> Float(xs[i])]

WithBranches(r, b) == [err |-> r.err, val |-> r.val, branches |-> b]

\* model._w07(x, T, F, alpha, t)
EvalW07 ==
    /\ pc = "idle"
    /\ \E xs \in FnXArrays, T \in TValues, F \in FValues, alpha \in AlphaValues,
          t \in SmallTValues :
          /\ call' = [op |-> "_w07", x |-> xs, T |-> T, F |-> F, alpha |-> alpha, t |-> t]
          /\ ret' = WithBranches(W07(Floats(xs), Float(T), Float(F), Float(alpha), Float(t)),
                                 [i \in 1..Len(xs) |-> Branches(W07Conds(Float(xs[i]), Float(T)))])
    /\ pc' = "done"
    /\ UNCHANGED <<alive, model>>

\* models.w07(x, T, F, alpha, t)
EvalLegacyW07 ==
    /\ pc = "idle"
    /\ \E xs \in FnXArrays, T \in TValues, F \in FValues, alpha \in AlphaValues,
          t \in SmallTValues :
          /\ call' = [op |-> "w07", x |-> xs, T |-> T, F |-> F, alpha |-> alpha, t |-> t]
          /\ ret' = WithBranches(
                        LegacyW07(Floats(xs), Float(T), Float(F), Float(alpha), Float(t)),
                        [i \in 1..Len(xs) |-> Branches(LegacyW07Conds(Float(xs[i]), Float(T)))])
    /\ pc' = "done"
    /\ UNCHANGED <<alive, model>>

\* model._simple_bpl(x, T, F, alpha1, alpha2)
EvalSimpleBpl ==
    /\ pc = "idle"
    /\ \E xs \in FnXArrays, T \in TValues, F \in FValues, a1 \in AlphaValues,
          a2 \in AlphaValues :
          /\ call' = [op |-> "_simple_bpl", x |-> xs, T |-> T, F |-> F,
                      alpha1 |-> a1, alpha2 |-> a2]
          /\ ret' = WithBranches(
                        SimpleBpl(Floats(xs), Float(T), Float(F), Float(a1), Float(a2)),
                        [i \in 1..Len(xs) |->
                            Branches(BplConds(Power10(Float(xs[i])), Power10(Float(T))))])
    /\ pc' = "done"
    /\ UNCHANGED <<alive, model>>

\* models.sharp_bpl(x, T, F, alpha1, alpha2)
EvalSharpBpl ==
    /\ pc = "idle"
    /\ \E xs \in FnXArrays, T \in TValues, F \in FValues, a1 \in AlphaValues,
          a2 \in AlphaValues :
          /\ call' = [op |-> "sharp_bpl", x |-> xs, T |-> T, F |-> F,
                      alpha1 |-> a1, alpha2 |-> a2]
          /\ ret' = WithBranches(
                        SharpBpl(Floats(xs), Float(T), Float(F), Float(a1), Float(a2)),
                        [i \in 1..Len(xs) |->
                            Branches(BplConds(Power10(Float(xs[i])), Power10(Float(T))))])
    /\ pc' = "done"
    /\ UNCHANGED <<alive, model>>

\* Model.SMOOTH_BPL()(x, T, F, alpha1, alpha2, S); np: the parameters are the
\* elements of an ndarray (NumPy scalars) and not Python numbers
CallSmoothBpl ==
    /\ pc = "idle"
    /\ \E xs \in FnXArrays, T \in TValues, F \in FValues, a1 \in SmallTValues,
          a2 \in SmallTValues, S \in SValues, np \in BOOLEAN :
          /\ call' = [op |-> "SMOOTH_BPL", x |-> xs, T |-> T, F |-> F,
                      alpha1 |-> a1, alpha2 |-> a2, S |-> S, np |-> np]
          /\ ret' = ModelCall(SMOOTH_BPL, Floats(xs),
                              <<Float(T), Float(F), Float(a1), Float(a2), Float(S)>>,
                              <<>>, np)
    /\ pc' = "done"
    /\ UNCHANGED <<alive, model>>

\* models.smooth_bpl(x, T, F, alpha1, alpha2, S)
EvalLegacySmoothBpl ==
    /\ pc = "idle"
    /\ \E xs \in FnXArrays, T \in TValues, F \in FValues, a1 \in SmallTValues,
          a2 \in SmallTValues, S \in SValues, np \in BOOLEAN :
          /\ call' = [op |-> "smooth_bpl", x |-> xs, T |-> T, F |-> F,
                      alpha1 |-> a1, alpha2 |-> a2, S |-> S, np |-> np]
          /\ ret' = LegacySmoothBpl(Floats(xs), Float(T), Float(F), Float(a1), Float(a2),
                                    Float(S))
    /\ pc' = "done"
    /\ UNCHANGED <<alive, model>>

\* Model.W07(vary_t), Model.SIMPLE_BPL(), Model.SMOOTH_BPL(): the classmethod
\* returns a new Model
MakePreset ==
    /\ pc = "idle"
    /\ \E name \in PresetNames, vary_t \in BOOLEAN :
          /\ call' = [op |-> "preset", preset |-> name, vary_t |-> vary_t]
          /\ ret' = Preset(name, vary_t)
    /\ pc' = "done"
    /\ UNCHANGED <<alive, model>>

\* the (reduced_chisq, nu) pairs: a few degrees of freedom with any
\* reduced_chisq, and many degrees of freedom with a reduced_chisq >= 1
NuValues == {2, 4, 6}
ManyNu == 1000
ChisqValues == 0..2
TTValues == {0, 1}

\* models.probability(reduced_chisq, nu, tt)
EvalProbability ==
    /\ pc = "idle"
    /\ \E r \in ChisqValues, nu \in NuValues \cup {ManyNu}, tt \in TTValues :
          /\ nu = ManyNu => r >= 1
          /\ call' = [op |-> "probability", reduced_chisq |-> r, nu |-> nu, tt |-> tt]
          /\ ret' = Probability(r, nu, tt)
    /\ pc' = "done"
    /\ UNCHANGED <<alive, model>>

NextFn ==
    \/ MakePreset
    \/ EvalProbability
    \/ EvalW07
    \/ EvalLegacyW07
    \/ EvalSimpleBpl
    \/ EvalSharpBpl
    \/ CallSmoothBpl
    \/ EvalLegacySmoothBpl
    \/ Return

SpecFn == Init /\ [][NextFn]_vars

(***************************************************************************)
(* Properties of Model construction (under Spec).                          *)
(***************************************************************************)
Done(op) == pc = "done" /\ call.op = op

\* the formal parameter names of func other than the first
FormalNames(func) == { func.args[i] : i \in 2..Len(func.args) }

SuppliedNames(params) == { params[i].name : i \in 1..Len(params) }

\* C1: Model(func, func_args=[...]) fails with a ValueError iff some supplied
\* Parameter's name is not a formal parameter of func other than the first; with
\* the default bounds that is the only failure; and when construction succeeds
\* every key of func_args is such a formal parameter name.
C1_FailsIffInvalidName ==
    (Done("Model") /\ call.func_args.given) =>
        LET bad == ~(SuppliedNames(call.func_args.list) \subseteq FormalNames(call.func))
        IN  /\ (ret.err = "ValueError") <=> bad
            /\ ~call.bounds.given => ((ret.err # "none") <=> bad)
            /\ alive <=> (ret.err = "none")
            /\ alive => \A i \in 1..Len(model.func_args) :
                            model.func_args[i].key \in FormalNames(call.func)

\* a ValueError for a list whose first name is valid and whose second is not
C1_Witness ==
    /\ Done("Model") /\ call.func_args.given
    /\ Len(call.func_args.list) = 2
    /\ call.func_args.list[1].name \in FormalNames(call.func)
    /\ call.func_args.list[2].name \notin FormalNames(call.func)
    /\ ret.err = "ValueError"

\* the first Min(n, Len(p)) values of p, in order
Prefix(p, n) == [i \in 1..(IF n < Len(p) THEN n ELSE Len(p)) |-> p[i]]

\* C2: model(x, *p, **kwargs) is func(x, first min(len(p), len(model)) values of
\* p, **kwargs); values of p beyond position len(model) are ignored: any vector
\* that agrees with p on the first len(model) positions gives the same outcome.
C2_CallForwardsPrefix ==
    Done("call") =>
        /\ ret = Apply(model.func, call.x, Prefix(call.p, Len(model.func_args)),
                       call.kwargs, FALSE)
        /\ \A q \in PVectors :
              (/\ Len(call.p) >= Len(model.func_args)
               /\ Len(q) >= Len(model.func_args)
               /\ Prefix(q, Len(model.func_args)) = Prefix(call.p, Len(model.func_args)))
              => ModelCall(model, call.x, q, call.kwargs, FALSE) = ret

\* a call with more values than the model has parameters, which returns
C2_Witness ==
    /\ Done("call")
    /\ Len(call.p) > Len(model.func_args)
    /\ Len(model.func_args) > 0
    /\ ret.err = "none"

\* whether the names of s appear in the order they have in args
InDeclarationOrder(s, args) ==
    \A i, j \in 1..Len(s) : i < j => IndexOf(s[i], args) < IndexOf(s[j], args)

\* C3: iterating a Model yields its parameter names in the declaration order of
\* the wrapped callable, len(model) is the number of names yielded and
\* model[name] is the Parameter of that name.
C3_IterationInDeclarationOrder ==
    /\ Done("iter") =>
          /\ InDeclarationOrder(ret.val, model.func.args)
          /\ Len(ret.val) = ModelLen(model)
    /\ (Done("getitem") /\ ret.err = "none") => ret.val.name = call.key

\* C4: Model(func) with func_args omitted succeeds and holds exactly one default
\* Parameter (min -inf, max +inf, vary True, plot_fmt the name) per formal
\* parameter of func other than the first, in declaration order.
C4_DefaultParameters ==
    (Done("Model") /\ ~call.func_args.given /\ ~call.bounds.given) =>
        /\ ret.err = "none"
        /\ alive
        /\ Len(model.func_args) = Len(call.func.args) - 1
        /\ \A i \in 1..Len(model.func_args) :
              /\ model.func_args[i].key = call.func.args[i + 1]
              /\ model.func_args[i].value.name = call.func.args[i + 1]
              /\ model.func_args[i].value.min = NInf
              /\ model.func_args[i].value.max = PInf
              /\ model.func_args[i].value.vary = TRUE
              /\ model.func_args[i].value.plot_fmt = call.func.args[i + 1]

\* the last Parameter of the list with this name
LastNamed(params, name) ==
    params[CHOOSE i \in 1..Len(params) :
              /\ params[i].name = name
              /\ \A j \in (i + 1)..Len(params) : params[j].name # name]

\* C5: a func_args list that repeats a valid name does not fail: the mapping
\* holds exactly one entry per supplied name, the last Parameter supplied with
\* that name, and len(model) is the number of distinct names supplied.
C5_DuplicateNamesLastWins ==
    (/\ Done("Model") /\ call.func_args.given
     /\ SuppliedNames(call.func_args.list) \subseteq FormalNames(call.func)
     /\ (call.bounds.given => Len(call.bounds.list) = 4)) =>
        /\ ret.err = "none"
        /\ alive
        /\ Len(model.func_args) = Cardinality(SuppliedNames(call.func_args.list))
        /\ \A n \in SuppliedNames(call.func_args.list) :
              /\ Cardinality({ i \in 1..Len(model.func_args) : model.func_args[i].key = n }) = 1
              /\ \A i \in 1..Len(model.func_args) :
                    model.func_args[i].key = n =>
                        model.func_args[i].value = LastNamed(call.func_args.list, n)

\* a list that gives one name twice, with two different Parameters
C5_Witness ==
    /\ Done("Model") /\ call.func_args.given /\ alive
    /\ Len(call.func_args.list) = 2
    /\ call.func_args.list[1].name = call.func_args.list[2].name
    /\ call.func_args.list[1] # call.func_args.list[2]
    /\ Len(model.func_args) = 1

(***************************************************************************)
(* Properties of chisq (under Spec).                                       *)
(***************************************************************************)
\* a == b as NumPy compares: NaN equals nothing
VEq(a, b) == ~IsNaN(a) /\ ~IsNaN(b) /\ a = b

\* the chi-squared value of the outcome
ChisqOf(r) == IF call.return_reduced THEN r.val[1] ELSE r.val

\* the model's values at the call's x and p
FitOf(c) == ModelCall(model, c.x, c.p, <<>>, FALSE)

ExactFit(c) ==
    /\ FitOf(c).err = "none"
    /\ \A i \in 1..Len(c.x) : VEq(c.y[i], FitOf(c).val[i])

\* C7 as stated: with every sigma nonzero and y equal elementwise to
\* model(x, *p), chisq returns exactly 0; and chisq is never negative.
C7_ExactFitIsZero ==
    Done("chisq") =>
        /\ (ExactFit(call) /\ \A i \in 1..Len(call.x) : ~IsZero(call.sigma[i]))
              => (ret.err = "none" /\ VEq(ChisqOf(ret), Float(0)))
        /\ ret.err = "none" => ~VLt(ChisqOf(ret), Float(0))

\* C7 amended: the same, for model values that are all finite.
C7_FiniteExactFitIsZero ==
    Done("chisq") =>
        /\ (/\ ExactFit(call)
            /\ \A i \in 1..Len(call.x) : IsFinite(FitOf(call).val[i])
            /\ \A i \in 1..Len(call.x) : ~IsZero(call.sigma[i]))
              => (ret.err = "none" /\ VEq(ChisqOf(ret), Float(0)))
        /\ ret.err = "none" => ~VLt(ChisqOf(ret), Float(0))

\* an exact fit of nonzero finite values with nonzero sigma
C7_Witness ==
    /\ Done("chisq") /\ ExactFit(call)
    /\ Len(call.x) = 2
    /\ \A i \in 1..Len(call.x) :
          /\ ~IsZero(call.sigma[i])
          /\ IsFinite(call.y[i]) /\ ~IsZero(call.y[i])
    /\ VEq(ChisqOf(ret), Float(0))

\* C8: chisq(..., return_reduced=True) returns (chisq, chisq / (len(x) - len(p)))
\* with the length of the vector p as supplied; it raises only if the model call
\* raises, and with len(x) = len(p) the reduced value is not finite.
C8_ReducedUsesLenP ==
    (Done("chisq") /\ call.return_reduced) =>
        /\ ret.err = FitOf(call).err
        /\ ret.err = "none" =>
              /\ Len(ret.val) = 2
              /\ ret.val[1] = Chisq(call.x, call.y, call.sigma, model, call.p, FALSE, FALSE).val
              /\ Len(call.x) = Len(call.p) => ~IsFinite(ret.val[2])
              /\ (Len(call.x) # Len(call.p) /\ IsFinite(ret.val[1])) =>
                    /\ IsRat(ret.val[2])
                    /\ VMul(ret.val[2], Float(Len(call.x) - Len(call.p))) = ret.val[1]
              /\ (Len(call.x) # Len(call.p) /\ ~IsFinite(ret.val[1])) =>
                    ~IsFinite(ret.val[2])

\* as many points as values in p, more than the model has parameters
C8_Witness ==
    /\ Done("chisq") /\ call.return_reduced /\ ret.err = "none"
    /\ Len(call.x) = Len(call.p)
    /\ Len(call.p) # Len(model.func_args)
    /\ ~IsFinite(ret.val[2])

(***************************************************************************)
(* C9: a Model is read-only after construction (under Spec).               *)
(***************************************************************************)
ReadOperations == {"call", "len", "iter", "getitem", "repr", "chisq"}

\* C9: model(x, *p), len, iter, model[name], repr and chisq, in any order and by
\* any caller, leave func, func_args, bounds, name and slug as they are, and an
\* assignment to model.func or model.func_args raises and rebinds nothing.
C9_ReadOnly ==
    [][alive =>
          /\ call'.op \in ReadOperations => (alive' /\ model' = model)
          /\ (call'.op = "setattr" /\ call'.attr \in {"func", "func_args"}) =>
                /\ ret'.err = "AttributeError"
                /\ model'.func = model.func
                /\ model'.func_args = model.func_args]_vars

\* a refused assignment to func_args of a model that has parameters
C9_Witness ==
    /\ Done("setattr") /\ call.attr = "func_args"
    /\ ret.err = "AttributeError"
    /\ Len(model.func_args) > 0

(***************************************************************************)
(* Properties of the afterglow functions (under SpecFn).                   *)
(***************************************************************************)
PiecewiseOps == {"_w07", "w07", "_simple_bpl", "sharp_bpl"}

\* the closed forms of the branches, from the caller's integers:
\* (-t*10^(-x) + alpha - alpha*10^(x-T) + F*ln10) / ln10
W07BeforeValue(x, T, F, alpha, t) ==
    Fin(Q(F),
        QAdd(QMul(Q(-t), QPow10(-x)), QSub(Q(alpha), QMul(Q(alpha), QPow10(x - T)))),
        R0)

\* F + T*alpha - x*alpha - t*10^(-x)/ln10
W07AfterValue(x, T, F, alpha, t) ==
    Fin(Q(F + T * alpha - x * alpha), QMul(Q(-t), QPow10(-x)), R0)

\* log10(10^F * (10^x / 10^T)^(-alpha)) = F - (x - T)*alpha
BplValue(x, T, F, alpha) == Float(F - (x - T) * alpha)

\* C6: for the Willingale-07 and the simple broken power law functions of both
\* modules, each element x gets exactly one branch, "before" iff x < T and
\* "after" iff x >= T, and its value is that branch's; at x = T the value is the
\* "after" value (F + T*alpha - x*alpha - t*10^(-x)/ln10, and F for the broken
\* power law).
C6_OneBranchPerElement ==
    (pc = "done" /\ call.op \in PiecewiseOps) =>
        /\ ret.err = "none"
        /\ Len(ret.val) = Len(call.x)
        /\ \A i \in 1..Len(call.x) :
              LET x == call.x[i]
                  T == call.T
              IN  /\ Cardinality(ret.branches[i]) = 1
                  /\ "before" \in ret.branches[i] <=> x < T
                  /\ "after" \in ret.branches[i] <=> x >= T
                  /\ call.op \in {"_w07", "w07"} =>
                        ret.val[i] = IF x < T
                                     THEN W07BeforeValue(x, T, call.F, call.alpha, call.t)
                                     ELSE W07AfterValue(x, T, call.F, call.alpha, call.t)
                  /\ call.op \in {"_simple_bpl", "sharp_bpl"} =>
                        /\ ret.val[i] = BplValue(x, T, call.F,
                                                 IF x < T THEN call.alpha1 ELSE call.alpha2)
                        /\ x = T => ret.val[i] = Float(call.F)

\* _w07 on an array with an element before the break, valued by the "before"
\* branch, and one at the break, valued by the "after" branch
C6_Witness ==
    /\ Done("_w07")
    /\ call.alpha # 0
    /\ \E i, j \in 1..Len(call.x) :
          /\ call.x[i] < call.T /\ ret.branches[i] = {"before"}
          /\ ret.val[i] = W07BeforeValue(call.x[i], call.T, call.F, call.alpha, call.t)
          /\ ret.val[i] # W07AfterValue(call.x[i], call.T, call.F, call.alpha, call.t)
          /\ call.x[j] = call.T /\ ret.branches[j] = {"after"}
          /\ ret.val[j] = W07AfterValue(call.x[j], call.T, call.F, call.alpha, call.t)

SmoothOps == {"SMOOTH_BPL", "smooth_bpl"}

BoundLe(a, b) ==
    CASE a.k = "ninf" \/ b.k = "pinf" -> TRUE
      [] a.k = "pinf" \/ b.k = "ninf" -> FALSE
      [] IsRat(a) /\ IsRat(b) -> ~QLt(b.c0, a.c0)
      [] a.k = "sci" /\ IsInteger(b) -> b.c0[1] >= 1
      [] IsInteger(a) /\ b.k = "sci" -> a.c0[1] <= 0
      [] a.k = "sci" /\ b.k = "sci" ->
            QLt(a.cm, b.cm) \/ (a.cm = b.cm /\ ~QLt(b.c0, a.c0))

\* C11: each preset (W07, SIMPLE_BPL, SMOOTH_BPL) is constructed without an
\* error, its parameters are in the wrapped function's signature order, every
\* Parameter has min <= max, and every parameter's (min, max) is the prior
\* range its preset's docstring documents for it.
C11_PresetsMatchDocumentedPriors ==
    Done("preset") =>
        /\ ret.err = "none"
        /\ LET m == ret.val
               names == DictKeys(m.func_args)
               doc == DocPriors(call.preset)
           IN  /\ names = Tail1(GetFullArgSpec(m.func))
               /\ Len(doc) = Len(names)
               /\ \A i \in 1..Len(names) :
                     LET p == DictGet(m.func_args, names[i])
                     IN  /\ BoundLe(p.min, p.max)
                         /\ doc[i].name = names[i]
                         /\ p.min = doc[i].min
                         /\ p.max = doc[i].max

(***************************************************************************)
(* Properties of probability (under SpecFn).                               *)
(***************************************************************************)
\* a probability is c * e^(-y) with a rational c and an integer y >= 0
ExpCoef(v) == v.c0
ExpArg(v) == IF IsRat(v) THEN 0 ELSE -v.cm[1]

\* a <= b for two such numbers, decided with 8/3 < e < 11/4
ExpLe(a, b) ==
    LET d == ExpArg(a) - ExpArg(b)
        le(p, q) == ~QLt(q, p)
    IN  CASE d >= 0 /\ le(ExpCoef(a), QMul(ExpCoef(b), QPow(<<8, 3>>, d))) -> TRUE
          [] d > 0 /\ le(QMul(ExpCoef(b), QPow(<<11, 4>>, d)), ExpCoef(a)) -> FALSE
          [] d < 0 /\ le(QMul(ExpCoef(a), QPow(<<11, 4>>, -d)), ExpCoef(b)) -> TRUE
          [] d < 0 /\ QLt(ExpCoef(b), QMul(ExpCoef(a), QPow(<<8, 3>>, -d))) -> FALSE
          [] d = 0 -> le(ExpCoef(a), ExpCoef(b))

\* C12: for nu > 0 and reduced_chisq >= 0, probability(reduced_chisq, nu, tt)
\* returns a value in [0, 1], no larger than its value at any smaller
\* reduced_chisq >= 0 with the same nu, and the same for every tt.
C12_ProbabilityMonotoneInUnitInterval ==
    Done("probability") =>
        /\ ret.err = "none"
        /\ ~QLt(ExpCoef(ret.val), Q(0)) /\ ExpLe(ret.val, Float(1))
        /\ \A r \in ChisqValues :
              (r <= call.reduced_chisq /\ (call.nu = ManyNu => r >= 1)) =>
                 LET q == Probability(r, call.nu, call.tt)
                 IN  q.err = "none" /\ ExpLe(ret.val, q.val)
        /\ \A tt \in TTValues :
              Probability(call.reduced_chisq, call.nu, tt) = ret

(***************************************************************************)
(* Properties of the legacy chisq helper (under Spec).                     *)
(***************************************************************************)
\* C13: models.chisq prints its warning exactly when some element of yerr is
\* 0; it leaves its input arrays as they were; it raises only what the model
\* call raises; and with a zero in yerr the sum it returns is not finite (+inf,
\* or NaN where a zero residual meets the zero error).
C13_ZeroErrorWarnsAndContinues ==
    Done("legacy_chisq") =>
        LET zero == \E i \in 1..Len(call.yerr) : call.yerr[i] = Float(0)
            f == ModelCall(model, call.x, call.p, <<>>, FALSE)
        IN  /\ ret.printed = (IF zero THEN <<ZeroErrorWarning>> ELSE <<>>)
            /\ ret.args = <<call.x, call.y, call.yerr>>
            /\ ret.err = f.err
            /\ (ret.err = "none" /\ zero) => ret.val \in {PInf, NaN}
            /\ (ret.err = "none" /\ ~zero /\ \A i \in 1..Len(f.val) : IsFinite(f.val[i])) =>
                  IsFinite(ret.val)

\* a zero error in the second place only, a nonzero residual there: the warning
\* is printed and the sum is +inf
C13_Witness ==
    /\ Done("legacy_chisq")
    /\ Len(call.yerr) = 2 /\ call.yerr[1] # Float(0) /\ call.yerr[2] = Float(0)
    /\ ret.err = "none"
    /\ ret.printed = <<ZeroErrorWarning>>
    /\ ret.val = PInf

(***************************************************************************)
(* The two smooth broken power laws (under SpecFn).                        *)
(***************************************************************************)
\* C14: for a nonzero S, models.smooth_bpl(x, T, F, alpha1, alpha2, S) returns
\* what model._smooth_bpl(x, T, F, alpha1, alpha2, S) returns, element by
\* element.
C14_SmoothBplImplementationsAgree ==
    (Done("smooth_bpl") /\ call.S # 0) =>
        ret = SmoothBpl(Floats(call.x), Float(call.T), Float(call.F), Float(call.alpha1),
                        Float(call.alpha2), Float(call.S), TRUE)

====
